---- MODULE Spec2Model ----
(***************************************************************************)
(* Model of PpdbSqlSchema (python/lsst/dax/ppdb/ppdbSqlSchema.py): the     *)
(* construction of the SQLAlchemy table set from the logical catalog, its  *)
(* re-creation by makeSchema, and the Oracle DDL suffix hooks.             *)
(*                                                                         *)
(* Conventions: a Python string that is concatenated is a sequence of      *)
(* tokens, so that '+' is \o and the empty string is << >>; Python None is *)
(* the value None; a Python object created by a constructor call carries   *)
(* the number of the _makeTables pass that created it (field "build").     *)
(***************************************************************************)
EXTENDS Integers, Sequences, FiniteSets, TLC

\* ------------------------------------------------------------------ bounds
\* number of makeSchema calls explored after construction
MaxBuilds == 2

\* ------------------------------------------------------------- basic values
None == "None"

\* truthiness of an optional Python string (None and "" are false)
Truthy(x) == x # None /\ x # ""

SupportedDialects == {"mysql", "postgresql", "oracle", "sqlite"}

\* the four dialects the class knows and one it does not
Dialects == SupportedDialects \cup {"mssql"}

IndexingModes == {"baseline", "pix_id_iov", "last_object_table"}

Prefixes == {<< >>, <<"pp_">>}

MysqlEngines == {"InnoDB", "MyISAM"}

Tablespaces == {None, "TS1"}

\* ------------------------------------------------------------- Type Mapper
\* getDoubleType with the oracle branch importing the postgresql type
getDoubleType_sharedImport(name) ==
    IF name = "mysql" THEN [ok |-> TRUE, type |-> <<"sqlalchemy.dialects.mysql", "DOUBLE(asdecimal=False)">>]
    ELSE IF name = "postgresql" \/ name = "oracle"
         THEN [ok |-> TRUE, type |-> <<"sqlalchemy.dialects.postgresql", "DOUBLE_PRECISION">>]
    ELSE IF name = "sqlite" THEN [ok |-> TRUE, type |-> <<"sqlalchemy.dialects.sqlite", "REAL">>]
    ELSE [ok |-> FALSE, type |-> <<"TypeError", "cannot determine DOUBLE type, unexpected dialect: ", name>>]

getDoubleType(name) ==
    IF name = "mysql" THEN [ok |-> TRUE, type |-> <<"sqlalchemy.dialects.mysql", "DOUBLE(asdecimal=False)">>]
    ELSE IF name = "postgresql" THEN [ok |-> TRUE, type |-> <<"sqlalchemy.dialects.postgresql", "DOUBLE_PRECISION">>]
    ELSE IF name = "oracle" THEN [ok |-> TRUE, type |-> <<"sqlalchemy.dialects.oracle", "DOUBLE_PRECISION">>]
    ELSE IF name = "sqlite" THEN [ok |-> TRUE, type |-> <<"sqlalchemy.dialects.sqlite", "REAL">>]
    ELSE [ok |-> FALSE, type |-> <<"TypeError", "cannot determine DOUBLE type, unexpected dialect: ", name>>]

StaticTypes == {"FLOAT", "DATETIME", "BIGINT", "INTEGER", "INT", "TINYINT", "BLOB", "CHAR", "BOOL"}

LogicalTypes == {"DOUBLE"} \cup StaticTypes

makeTypeMap(double) ==
    [t \in LogicalTypes |->
        CASE t = "DOUBLE"   -> double
          [] t = "FLOAT"    -> <<"sqlalchemy.types", "Float">>
          [] t = "DATETIME" -> <<"sqlalchemy.types", "TIMESTAMP">>
          [] t = "BIGINT"   -> <<"sqlalchemy.types", "BigInteger">>
          [] t = "INTEGER"  -> <<"sqlalchemy.types", "Integer">>
          [] t = "INT"      -> <<"sqlalchemy.types", "Integer">>
          [] t = "TINYINT"  -> <<"sqlalchemy.types", "Integer">>
          [] t = "BLOB"     -> <<"sqlalchemy.types", "LargeBinary">>
          [] t = "CHAR"     -> <<"sqlalchemy.types", "CHAR">>
          [] t = "BOOL"     -> <<"sqlalchemy.types", "Boolean">>]

\* --------------------------------------------------------- logical catalog
\* a column default is << >> when the catalog gives none (Python None) and
\* <<v>> when it gives the value v
LCol(n, t, nullable, default) == [name |-> n, type |-> t, nullable |-> nullable, default |-> default]

LIdx(n, t, cols) == [name |-> n, type |-> t, columns |-> cols]

LTab(cols, idxs) == [columns |-> cols, indices |-> idxs]

CatalogNames == {"DiaObject", "DiaObjectIndexHtmFirst", "DiaObjectLast", "DiaSource",
                 "SSObject", "DiaForcedSource", "DiaObject_To_Object_Match"}

\* A complete catalog in the shape of the PPDB schema: the pixel-keyed
\* definition carries only the index set, SSObject has an unnamed primary
\* key, the match table a unique constraint.
FullCatalog ==
    [n \in CatalogNames |->
        CASE n = "DiaObject" ->
               LTab(<<LCol("diaObjectId", "BIGINT", FALSE, << >>),
                      LCol("validityStart", "DATETIME", FALSE, << >>),
                      LCol("pixelId", "BIGINT", FALSE, << >>),
                      LCol("ra", "DOUBLE", FALSE, << >>),
                      LCol("flags", "INT", TRUE, <<0>>)>>,
                    <<LIdx(<<"PK_DiaObject">>, "PRIMARY", <<"diaObjectId", "validityStart">>),
                      LIdx(<<"IDX_DiaObject_validityStart">>, "INDEX", <<"validityStart">>)>>)
          [] n = "DiaObjectIndexHtmFirst" ->
               LTab(<< >>,
                    <<LIdx(<<"PK_DiaObject">>, "PRIMARY", <<"pixelId", "diaObjectId", "validityStart">>),
                      LIdx(<<"IDX_DiaObject_diaObjId">>, "INDEX", <<"diaObjectId">>)>>)
          [] n = "DiaObjectLast" ->
               LTab(<<LCol("pixelId", "BIGINT", FALSE, << >>),
                      LCol("diaObjectId", "BIGINT", FALSE, << >>),
                      LCol("ra", "DOUBLE", FALSE, << >>)>>,
                    <<LIdx(<<"PK_DiaObjectLast">>, "PRIMARY", <<"pixelId", "diaObjectId">>),
                      LIdx(<<"IDX_DiaObjLast_diaObjId">>, "INDEX", <<"diaObjectId">>)>>)
          [] n = "DiaSource" ->
               LTab(<<LCol("diaSourceId", "BIGINT", FALSE, << >>),
                      LCol("diaObjectId", "BIGINT", TRUE, << >>),
                      LCol("midPointTai", "DOUBLE", FALSE, << >>)>>,
                    <<LIdx(<<"PK_DiaSource">>, "PRIMARY", <<"diaSourceId">>),
                      LIdx(<<"IDX_DiaSource_diaObjectId">>, "INDEX", <<"diaObjectId">>)>>)
          [] n = "SSObject" ->
               LTab(<<LCol("ssObjectId", "BIGINT", FALSE, << >>),
                      LCol("flags", "TINYINT", FALSE, <<1>>)>>,
                    <<LIdx(<< >>, "PRIMARY", <<"ssObjectId">>)>>)
          [] n = "DiaForcedSource" ->
               LTab(<<LCol("diaObjectId", "BIGINT", FALSE, << >>),
                      LCol("ccdVisitId", "BIGINT", FALSE, << >>),
                      LCol("psFlux", "FLOAT", TRUE, << >>)>>,
                    <<LIdx(<<"PK_DiaForcedSource">>, "PRIMARY", <<"diaObjectId", "ccdVisitId">>)>>)
          [] n = "DiaObject_To_Object_Match" ->
               LTab(<<LCol("diaObjectId", "BIGINT", FALSE, << >>),
                      LCol("objectId", "BIGINT", FALSE, << >>),
                      LCol("dist", "FLOAT", TRUE, << >>)>>,
                    <<LIdx(<<"UQ_DiaObject_To_Object_Match">>, "UNIQUE", <<"diaObjectId", "objectId">>),
                      LIdx(<<"IDX_DiaObjectToObjectMatch_objectId">>, "INDEX", <<"objectId">>)>>)]

Restrict(f, S) == [x \in S |-> f[x]]

\* the catalog with one column of SSObject typed with a token the type map
\* does not know
BadTypeCatalog ==
    [FullCatalog EXCEPT !["SSObject"].columns =
        Append(@, LCol("comment", "TEXT", TRUE, << >>))]

\* the catalogs a manager is constructed over: complete, one table absent,
\* or one unknown column type
Catalogs ==
    {FullCatalog, BadTypeCatalog}
        \cup {Restrict(FullCatalog, CatalogNames \ {n}) : n \in CatalogNames}

\* ------------------------------------------------------------ Column Builder
\* Python str() on the integer defaults the catalogs use
str(v) == CASE v = 0 -> "0" [] v = 1 -> "1" [] OTHER -> "?"

\* Column(...) leaves autoincrement at "auto" unless the keyword is given
AutoDefault == "auto"

AutoOff == "False"

Column(n, ctype, nullable, server_default, autoincrement) ==
    [name |-> n, type |-> ctype, nullable |-> nullable,
     server_default |-> server_default, autoincrement |-> autoincrement]

Range(s) == {s[i] : i \in DOMAIN s}

\* columns of the first PRIMARY index of a logical table, {} if it has none
pkeyColumns(table_schema) ==
    LET prim == {i \in DOMAIN table_schema.indices : table_schema.indices[i].type = "PRIMARY"}
    IN  IF prim = {} THEN {}
        ELSE Range(table_schema.indices[CHOOSE i \in prim : \A j \in prim : i <= j].columns)

\* _tableColumns: KeyError when the table is not in the catalog or a column
\* type is not in the type map
tableColumns(tableSchemas, type_map, table_name) ==
    IF table_name \notin DOMAIN tableSchemas THEN [ok |-> FALSE, value |-> << >>]
    ELSE LET table_schema == tableSchemas[table_name]
             pkey_columns == pkeyColumns(table_schema)
             cols == table_schema.columns
         IN  IF \E i \in DOMAIN cols : cols[i].type \notin DOMAIN type_map
             THEN [ok |-> FALSE, value |-> << >>]
             ELSE [ok |-> TRUE,
                   value |-> [i \in DOMAIN cols |->
                       Column(cols[i].name,
                              type_map[cols[i].type],
                              cols[i].nullable,
                              IF cols[i].default # << >> THEN str(cols[i].default[1]) ELSE None,
                              IF cols[i].name \in pkey_columns THEN AutoOff ELSE AutoDefault)]]

\* --------------------------------------------------- Index/Constraint Builder
\* a Python dict is a function from its keys
EmptyDict == [k \in {} |-> None]

Get(d, k, default) == IF k \in DOMAIN d THEN d[k] ELSE default

Index(n, cols, info) ==
    [kind |-> "Index", named |-> TRUE, name |-> n, columns |-> cols, info |-> info]

\* PrimaryKeyConstraint / UniqueConstraint, with or without the name keyword
Constraint(kind, named, n, cols) ==
    [kind |-> kind, named |-> named, name |-> n, columns |-> cols, info |-> EmptyDict]

\* indexDef that prefixes index names but not constraint names
indexDef_constraintUnprefixed(prefix, index, info) ==
    IF index.type = "INDEX" THEN Index(prefix \o index.name, index.columns, info)
    ELSE LET named == index.name # << >>
             kind == IF index.type = "PRIMARY" THEN "PrimaryKeyConstraint" ELSE "UniqueConstraint"
         IN  Constraint(kind, named, IF named THEN index.name ELSE << >>, index.columns)

indexDef(prefix, index, info) ==
    IF index.type = "INDEX" THEN Index(prefix \o index.name, index.columns, info)
    ELSE LET named == index.name # << >>
             kind == IF index.type = "PRIMARY" THEN "PrimaryKeyConstraint" ELSE "UniqueConstraint"
         IN  Constraint(kind, named, IF named THEN prefix \o index.name ELSE << >>, index.columns)

\* tableIndices that looks the table up with a default instead of raising
tableIndices_lenient(tableSchemas, prefix, table_name, info) ==
    IF table_name \notin DOMAIN tableSchemas THEN [ok |-> TRUE, value |-> << >>]
    ELSE LET known == SelectSeq(tableSchemas[table_name].indices,
                                LAMBDA x : x.type \in {"INDEX", "PRIMARY", "UNIQUE"})
         IN  [ok |-> TRUE, value |-> [i \in DOMAIN known |-> indexDef(prefix, known[i], info)]]

\* _tableIndices: KeyError when the table is not in the catalog; an index of
\* a type other than INDEX, PRIMARY, UNIQUE produces nothing
tableIndices(tableSchemas, prefix, table_name, info) ==
    IF table_name \notin DOMAIN tableSchemas THEN [ok |-> FALSE, value |-> << >>]
    ELSE LET known == SelectSeq(tableSchemas[table_name].indices,
                                LAMBDA x : x.type \in {"INDEX", "PRIMARY", "UNIQUE"})
         IN  [ok |-> TRUE, value |-> [i \in DOMAIN known |-> indexDef(prefix, known[i], info)]]

\* ------------------------------------------------------------ Table Assembler
Table(n, columns, constraints, mysql_engine, info, build) ==
    [name |-> n, columns |-> columns, constraints |-> constraints,
     mysql_engine |-> mysql_engine, info |-> info, build |-> build]

\* one Table(...) call of _makeTables: the attribute it is assigned to (None
\* when the table is only registered in the metadata), its arguments, and
\* whether evaluating the arguments raised KeyError
Plan(attr, n, columns, constraints, info) ==
    [attr |-> attr, name |-> n, ok |-> columns.ok /\ constraints.ok,
     columns |-> columns.value, constraints |-> constraints.value, info |-> info]

Ok(v) == [ok |-> TRUE, value |-> v]

otherTables == <<"DiaSource", "SSObject", "DiaForcedSource", "DiaObject_To_Object_Match">>

otherAttr(table_name) ==
    CASE table_name = "DiaSource" -> "sources"
      [] table_name = "DiaForcedSource" -> "forcedSources"
      [] OTHER -> None

\* objectsIndexSource that ignores the indexing mode
objectsIndexSource_baseline(dia_object_index) == "DiaObject"

objectsIndexSource(dia_object_index) ==
    IF dia_object_index = "pix_id_iov" THEN "DiaObjectIndexHtmFirst" ELSE "DiaObject"

visitsColumns ==
    <<Column("visitId", <<"sqlalchemy.types", "BigInteger">>, FALSE, None, AutoDefault),
      Column("visitTime", <<"sqlalchemy.types", "TIMESTAMP">>, FALSE, None, AutoDefault)>>

visitsConstraints(prefix, info) ==
    <<Constraint("PrimaryKeyConstraint", TRUE, prefix \o <<"PK_PpdbProtoVisits">>, <<"visitId">>),
      Index(prefix \o <<"IDX_PpdbProtoVisits_vTime">>, <<"visitTime">>, info)>>

\* info and info2 of _makeTables
makeInfo(oracle_tablespace) == [k \in {"oracle_tablespace"} |-> oracle_tablespace]

makeInfo2(info, oracle_iot) ==
    [k \in DOMAIN info \cup {"oracle_iot"} |-> IF k = "oracle_iot" THEN oracle_iot ELSE info[k]]

objectsPlan(tableSchemas, type_map, dia_object_index, prefix, info) ==
    <<Plan("objects", prefix \o <<"DiaObject">>,
           tableColumns(tableSchemas, type_map, "DiaObject"),
           tableIndices(tableSchemas, prefix, objectsIndexSource(dia_object_index), info),
           info)>>

\* nightlyPlan that builds the nightly table whatever the flag says
nightlyPlan_always(tableSchemas, type_map, dia_object_nightly, prefix, info) ==
    <<Plan("objects_nightly", prefix \o <<"DiaObjectNightly">>,
           tableColumns(tableSchemas, type_map, "DiaObject"), Ok(<< >>), info)>>

nightlyPlan(tableSchemas, type_map, dia_object_nightly, prefix, info) ==
    IF dia_object_nightly
    THEN <<Plan("objects_nightly", prefix \o <<"DiaObjectNightly">>,
                tableColumns(tableSchemas, type_map, "DiaObject"), Ok(<< >>), info)>>
    ELSE << >>

\* lastPlan that passes info instead of info2 to the table
lastPlan_info(tableSchemas, type_map, dia_object_index, prefix, info, oracle_iot) ==
    IF dia_object_index = "last_object_table"
    THEN <<Plan("objects_last", prefix \o <<"DiaObjectLast">>,
                tableColumns(tableSchemas, type_map, "DiaObjectLast"),
                tableIndices(tableSchemas, prefix, "DiaObjectLast", info),
                info)>>
    ELSE << >>

lastPlan(tableSchemas, type_map, dia_object_index, prefix, info, oracle_iot) ==
    IF dia_object_index = "last_object_table"
    THEN <<Plan("objects_last", prefix \o <<"DiaObjectLast">>,
                tableColumns(tableSchemas, type_map, "DiaObjectLast"),
                tableIndices(tableSchemas, prefix, "DiaObjectLast", info),
                makeInfo2(info, oracle_iot))>>
    ELSE << >>

otherPlans(tableSchemas, type_map, prefix, info) ==
    [i \in DOMAIN otherTables |->
        Plan(otherAttr(otherTables[i]), prefix \o <<otherTables[i]>>,
             tableColumns(tableSchemas, type_map, otherTables[i]),
             tableIndices(tableSchemas, prefix, otherTables[i], info),
             info)]

visitsPlan(prefix, info) ==
    <<Plan("visits", prefix \o <<"PpdbProtoVisits">>,
           Ok(visitsColumns), Ok(visitsConstraints(prefix, info)), info)>>

\* the Table(...) calls of _makeTables in program order
makePlans(tableSchemas, type_map, dia_object_index, dia_object_nightly, prefix, oracle_tablespace, oracle_iot) ==
    LET info == makeInfo(oracle_tablespace)
    IN  objectsPlan(tableSchemas, type_map, dia_object_index, prefix, info)
        \o nightlyPlan(tableSchemas, type_map, dia_object_nightly, prefix, info)
        \o lastPlan(tableSchemas, type_map, dia_object_index, prefix, info, oracle_iot)
        \o otherPlans(tableSchemas, type_map, prefix, info)
        \o visitsPlan(prefix, info)

\* _makeTables: the tables constructed, in order, up to the first KeyError
makeTables(tableSchemas, type_map, dia_object_index, dia_object_nightly, prefix, mysql_engine, oracle_tablespace, oracle_iot, build) ==
    LET plans == makePlans(tableSchemas, type_map, dia_object_index, dia_object_nightly,
                           prefix, oracle_tablespace, oracle_iot)
        bad == {i \in DOMAIN plans : ~plans[i].ok}
        stop == IF bad = {} THEN Len(plans) + 1 ELSE CHOOSE i \in bad : \A j \in bad : i <= j
    IN  [error |-> bad # {},
         tables |-> [i \in 1..(stop - 1) |->
                        [attr |-> plans[i].attr,
                         table |-> Table(plans[i].name, plans[i].columns, plans[i].constraints,
                                         mysql_engine, plans[i].info, build)]]]

\* value of an attribute after a _makeTables pass: the table assigned to it,
\* or what it held before when the pass did not reach (or has no)
\* assignment to it.  An attribute holds << >> (None) or <<table>>.
assigned(mk, attr, old) ==
    LET hit == {i \in DOMAIN mk.tables : mk.tables[i].attr = attr}
    IN  IF hit = {} THEN old ELSE <<mk.tables[CHOOSE i \in hit : TRUE].table>>

registered(mk) == {mk.tables[i].table : i \in DOMAIN mk.tables}

\* ------------------------------------------------------ Dialect DDL Extensions
\* text of the generic generator, as tokens; the MySQL generator renders the
\* mysql_engine keyword
visit_create_table(dialect, table) ==
    <<"CREATE TABLE ">> \o table.name \o <<" (columns, constraints)">>
        \o (IF dialect = "mysql" THEN <<" ENGINE=", table.mysql_engine>> ELSE << >>)

visit_create_index(dialect, table, index) ==
    <<"CREATE INDEX ">> \o index.name \o <<" ON ">> \o table.name \o <<" (columns)">>

add_suffixes_tbl(table) ==
    LET text == visit_create_table("oracle", table)
        oracle_tablespace == Get(table.info, "oracle_tablespace", None)
        oracle_iot == Get(table.info, "oracle_iot", FALSE)
        text1 == IF oracle_iot THEN text \o <<" ORGANIZATION INDEX">> ELSE text
    IN  IF Truthy(oracle_tablespace) THEN text1 \o <<" TABLESPACE ", oracle_tablespace>> ELSE text1

add_suffixes_idx(table, index) ==
    LET text == visit_create_index("oracle", table, index)
        oracle_tablespace == Get(index.info, "oracle_tablespace", None)
    IN  IF Truthy(oracle_tablespace) THEN text \o <<" TABLESPACE ", oracle_tablespace>> ELSE text

\* compileCreateIndex with the hook registered for every dialect
compileCreateIndex_everyDialect(dialect, table, index) == add_suffixes_idx(table, index)

\* the @compiles hooks are registered for the dialect "oracle" only
compileCreateTable(dialect, table) ==
    IF dialect = "oracle" THEN add_suffixes_tbl(table) ELSE visit_create_table(dialect, table)

compileCreateIndex(dialect, table, index) ==
    IF dialect = "oracle" THEN add_suffixes_idx(table, index)
    ELSE visit_create_index(dialect, table, index)

\* ----------------------------------------------------------------- the state
VARIABLES
    pc,                 \* "new": before the constructor; "ready": constructed; "failed": the constructor raised
    engine_name,        \* self._engine.name
    dia_object_index,   \* self._dia_object_index
    dia_object_nightly, \* self._dia_object_nightly
    prefix,             \* self._prefix
    tableSchemas,       \* self.tableSchemas, the logical catalog
    type_map,           \* self._type_map
    metadata,           \* the tables registered in self._metadata
    objects,            \* self.objects
    objects_nightly,    \* self.objects_nightly
    objects_last,       \* self.objects_last
    sources,            \* self.sources
    forcedSources,      \* self.forcedSources
    visits,             \* self.visits
    calls,              \* number of makeSchema calls made
    options,            \* arguments of the most recent __init__/makeSchema
    log,                \* steps the most recent makeSchema performed, in order
    result              \* how the most recent __init__/makeSchema ended

config == <<engine_name, dia_object_index, dia_object_nightly, prefix, tableSchemas>>

attrs == <<objects, objects_nightly, objects_last, sources, forcedSources, visits>>

vars == <<pc, config, type_map, metadata, attrs, calls, options, log, result>>

Options(drop, mysql_engine, oracle_tablespace, oracle_iot) ==
    [drop |-> drop, mysql_engine |-> mysql_engine,
     oracle_tablespace |-> oracle_tablespace, oracle_iot |-> oracle_iot]

Names(tables) == {t.name : t \in tables}

\* the statements a create_all pass over the tables renders for the dialect
createStatements(dialect, tables) ==
    {[kind |-> "CreateTable", name |-> t.name, text |-> compileCreateTable(dialect, t)] : t \in tables}
    \cup UNION {{[kind |-> "CreateIndex", name |-> t.constraints[i].name,
                  text |-> compileCreateIndex(dialect, t, t.constraints[i])] :
                     i \in {j \in DOMAIN t.constraints : t.constraints[j].kind = "Index"}} :
                t \in tables}

\* one step of makeSchema: the call, the tables it covers, the DDL it renders
Step(op, tables, ddl) == [op |-> op, tables |-> Names(tables), ddl |-> ddl]

\* clear that leaves the registered tables in place
clear_keep(tables) == tables

\* MetaData.clear()
clear(tables) == {}

\* schemaSteps with create_all issued before drop_all
schemaSteps_createFirst(dialect, drop, tables, error, fail) ==
    <<Step("clear", {}, {}), Step("_makeTables", tables, {})>>
        \o (IF ~error /\ fail # "drop_all"
            THEN <<Step("create_all", tables, createStatements(dialect, tables))>>
            ELSE << >>)
        \o (IF ~error /\ drop THEN <<Step("drop_all", tables, {})>> ELSE << >>)

\* the calls makeSchema makes, in order, up to the first one that raises
schemaSteps(dialect, drop, tables, error, fail) ==
    <<Step("clear", {}, {}), Step("_makeTables", tables, {})>>
        \o (IF ~error /\ drop THEN <<Step("drop_all", tables, {})>> ELSE << >>)
        \o (IF ~error /\ fail # "drop_all"
            THEN <<Step("create_all", tables, createStatements(dialect, tables))>>
            ELSE << >>)

Init ==
    /\ pc = "new"
    /\ engine_name \in Dialects
    /\ dia_object_index \in IndexingModes
    /\ dia_object_nightly \in BOOLEAN
    /\ prefix \in Prefixes
    /\ tableSchemas \in Catalogs
    /\ type_map = EmptyDict
    /\ metadata = {}
    /\ objects = << >>
    /\ objects_nightly = << >>
    /\ objects_last = << >>
    /\ sources = << >>
    /\ forcedSources = << >>
    /\ visits = << >>
    /\ calls = 0
    /\ options = Options(FALSE, "InnoDB", None, FALSE)
    /\ log = << >>
    /\ result = "none"

\* the attribute assignments of one _makeTables pass
assignAttrs(mk) ==
    /\ objects' = assigned(mk, "objects", objects)
    /\ objects_nightly' = assigned(mk, "objects_nightly", objects_nightly)
    /\ objects_last' = assigned(mk, "objects_last", objects_last)
    /\ sources' = assigned(mk, "sources", sources)
    /\ forcedSources' = assigned(mk, "forcedSources", forcedSources)
    /\ visits' = assigned(mk, "visits", visits)

\* PpdbSqlSchema.__init__
Initialize ==
    /\ pc = "new"
    /\ \E double \in {getDoubleType(engine_name)} :
       \E tmap \in {makeTypeMap(double.type)} :
       \E mk \in {makeTables(tableSchemas, tmap, dia_object_index, dia_object_nightly, prefix,
                             "InnoDB", None, FALSE, 1)} :
           IF ~double.ok
           THEN /\ pc' = "failed"
                /\ result' = "TypeError"
                /\ UNCHANGED <<type_map, metadata, attrs>>
           ELSE /\ type_map' = tmap
                /\ metadata' = registered(mk)
                /\ assignAttrs(mk)
                /\ pc' = IF mk.error THEN "failed" ELSE "ready"
                /\ result' = IF mk.error THEN "KeyError" ELSE "ok"
    /\ UNCHANGED <<config, calls, options, log>>

\* PpdbSqlSchema.makeSchema.  fail names the call the server rejects with an
\* error during this invocation: "none", "drop_all" or "create_all".
makeSchema(drop, mysql_engine, oracle_tablespace, oracle_iot, fail) ==
    /\ pc = "ready"
    /\ calls < MaxBuilds
    /\ fail = "drop_all" => drop
    /\ \E mk \in {makeTables(tableSchemas, type_map, dia_object_index, dia_object_nightly, prefix,
                             mysql_engine, oracle_tablespace, oracle_iot, calls + 2)} :
       \E tables \in {clear(metadata) \cup registered(mk)} :
           /\ metadata' = tables
           /\ assignAttrs(mk)
           /\ log' = schemaSteps(engine_name, drop, tables, mk.error, fail)
           /\ result' = IF mk.error THEN "KeyError"
                        ELSE IF fail # "none" THEN "ExecutionError" ELSE "ok"
    /\ calls' = calls + 1
    /\ options' = Options(drop, mysql_engine, oracle_tablespace, oracle_iot)
    /\ UNCHANGED <<pc, config, type_map>>

Next ==
    \/ Initialize
    \/ \E drop \in BOOLEAN, mysql_engine \in MysqlEngines, oracle_tablespace \in Tablespaces,
          oracle_iot \in BOOLEAN, fail \in {"none", "drop_all", "create_all"} :
          makeSchema(drop, mysql_engine, oracle_tablespace, oracle_iot, fail)

Spec == Init /\ [][Next]_vars

\* ===================================================================== claims
\* the tables the attributes of the manager refer to
AttrTables ==
    Range(objects) \cup Range(objects_nightly) \cup Range(objects_last)
        \cup Range(sources) \cup Range(forcedSources) \cup Range(visits)

AlwaysPresent ==
    {"DiaObject", "DiaSource", "SSObject", "DiaForcedSource", "DiaObject_To_Object_Match",
     "PpdbProtoVisits"}

ExpectedTables ==
    AlwaysPresent
        \cup (IF dia_object_nightly THEN {"DiaObjectNightly"} ELSE {})
        \cup (IF dia_object_index = "last_object_table" THEN {"DiaObjectLast"} ELSE {})

\* unprefixed name of a table
BaseName(t) == t.name[Len(t.name)]

HeldIs(attr, base) == Len(attr) = 1 /\ attr[1] \in metadata /\ attr[1].name = prefix \o <<base>>

\* C1: after __init__ and after every successful makeSchema the held tables
\* are exactly the six always-present ones, plus DiaObjectNightly iff
\* dia_object_nightly, plus DiaObjectLast iff dia_object_index is
\* last_object_table.
C1_TableSetDeterminedByConfig ==
    (pc = "ready" /\ result = "ok") =>
        /\ Names(metadata) = {prefix \o <<n>> : n \in ExpectedTables}
        /\ Cardinality(metadata) = Cardinality(ExpectedTables)
        /\ HeldIs(objects, "DiaObject")
        /\ HeldIs(sources, "DiaSource")
        /\ HeldIs(forcedSources, "DiaForcedSource")
        /\ HeldIs(visits, "PpdbProtoVisits")
        /\ IF dia_object_nightly THEN HeldIs(objects_nightly, "DiaObjectNightly")
                                 ELSE objects_nightly = << >>
        /\ IF dia_object_index = "last_object_table" THEN HeldIs(objects_last, "DiaObjectLast")
                                                     ELSE objects_last = << >>

C1_Witness ==
    /\ pc = "ready" /\ result = "ok" /\ calls = 2
    /\ dia_object_index = "pix_id_iov" /\ ~dia_object_nightly /\ prefix = << >>
    /\ Cardinality(metadata) = 6

\* primary-key constraints of a built table
PrimaryKeys(t) ==
    {t.constraints[i] : i \in {j \in DOMAIN t.constraints :
                                  t.constraints[j].kind = "PrimaryKeyConstraint"}}

\* C2: in every built table every column of the table's primary key has
\* autoincrement explicitly disabled, and only columns named in a primary
\* key are affected.
C2_PrimaryKeyNoAutoIncrement ==
    pc = "ready" =>
        \A t \in metadata : \A i \in DOMAIN t.columns :
            (t.columns[i].autoincrement = AutoOff)
                <=> (\E pk \in PrimaryKeys(t) : t.columns[i].name \in Range(pk.columns))

\* C3 as stated: with pix_id_iov both the columns and the constraints of the
\* objects table come from DiaObjectIndexHtmFirst.
C3_ObjectsFromSelectedDefinition ==
    (pc = "ready" /\ dia_object_index = "pix_id_iov") =>
        /\ objects[1].columns = tableColumns(tableSchemas, type_map, "DiaObjectIndexHtmFirst").value
        /\ objects[1].constraints =
               tableIndices(tableSchemas, prefix, "DiaObjectIndexHtmFirst",
                            [k \in {"oracle_tablespace"} |-> options.oracle_tablespace]).value

\* C3 amended: the columns of the objects table always come from DiaObject;
\* its constraints come from DiaObjectIndexHtmFirst with pix_id_iov (primary
\* key led by pixelId) and from DiaObject otherwise.
C3_ObjectsColumnsBaselineIndicesSelected ==
    pc = "ready" =>
        LET src == IF dia_object_index = "pix_id_iov" THEN "DiaObjectIndexHtmFirst" ELSE "DiaObject"
            lead == IF dia_object_index = "pix_id_iov" THEN "pixelId" ELSE "diaObjectId"
        IN  /\ objects[1].columns = tableColumns(tableSchemas, type_map, "DiaObject").value
            /\ objects[1].constraints =
                   tableIndices(tableSchemas, prefix, src,
                                [k \in {"oracle_tablespace"} |-> options.oracle_tablespace]).value
            /\ Cardinality(PrimaryKeys(objects[1])) = 1
            /\ \A pk \in PrimaryKeys(objects[1]) : pk.columns[1] = lead

C3_Witness ==
    /\ pc = "ready" /\ dia_object_index = "pix_id_iov" /\ calls >= 1
    /\ \E pk \in PrimaryKeys(objects[1]) : pk.columns[1] = "pixelId"

\* C4: after a makeSchema that raised, no table of an earlier _makeTables
\* pass is registered in the metadata or held by an attribute, and the
\* mapping is the complete one of the failed call.
C4_FailedCallDiscardsPreviousMapping ==
    (pc = "ready" /\ calls >= 1 /\ result \in {"KeyError", "ExecutionError"}) =>
        /\ \A t \in metadata \cup AttrTables : t.build = calls + 1
        /\ AttrTables \subseteq metadata
        /\ Names(metadata) = {prefix \o <<n>> : n \in ExpectedTables}

C4_Witness ==
    /\ pc = "ready" /\ calls = 2 /\ result = "ExecutionError"
    /\ \A t \in AttrTables : t.build = 3

Ops == [i \in DOMAIN log |-> log[i].op]

\* C5: every makeSchema clears, rebuilds, then drops only if drop is true,
\* then creates; no create precedes a drop, and a successful call ends with
\* create_all over every table of the rebuilt mapping.
C5_RegenerateStepOrder ==
    (pc = "ready" /\ calls >= 1) =>
        /\ Len(log) >= 2 /\ Ops[1] = "clear" /\ Ops[2] = "_makeTables"
        /\ log[2].tables = Names(metadata)
        /\ \A i, j \in DOMAIN log : (i # j) => (Ops[i] # Ops[j])
        /\ \A i, j \in DOMAIN log : (Ops[i] = "drop_all" /\ Ops[j] = "create_all") => i < j
        /\ (\E i \in DOMAIN log : Ops[i] = "drop_all") <=> options.drop
        /\ \A i \in DOMAIN log : Ops[i] \in {"drop_all", "create_all"} =>
               (i > 2 /\ log[i].tables = Names(metadata))
        /\ (result = "ok") =>
               /\ Ops[Len(log)] = "create_all"
               /\ {d.name : d \in {x \in log[Len(log)].ddl : x.kind = "CreateTable"}}
                      = Names(metadata)

C5_Witness ==
    /\ pc = "ready" /\ calls >= 1 /\ result = "ok" /\ options.drop
    /\ Len(log) = 4 /\ log[3].op = "drop_all" /\ log[4].op = "create_all"

\* names the catalog or _makeTables gives the indices and constraints of the
\* table with unprefixed name base
OriginalIndexNames(base) ==
    LET src == CASE base = "DiaObject" ->
                      (IF dia_object_index = "pix_id_iov" THEN "DiaObjectIndexHtmFirst"
                                                          ELSE "DiaObject")
                 [] OTHER -> base
    IN  CASE base = "PpdbProtoVisits" -> {<<"PK_PpdbProtoVisits">>, <<"IDX_PpdbProtoVisits_vTime">>}
          [] base = "DiaObjectNightly" -> {}
          [] OTHER -> {ix.name : ix \in {x \in Range(tableSchemas[src].indices) : x.name # << >>}}

NamedConstraints(t) ==
    {t.constraints[i] : i \in {j \in DOMAIN t.constraints : t.constraints[j].named}}

\* C6: every table name, index name and named constraint name is the
\* configured prefix followed by the original name: it starts with "pp_"
\* under the prefix "pp_" and is the original name under the empty prefix.
C6_IdentifiersCarryPrefix ==
    pc = "ready" =>
        \A t \in metadata :
            /\ BaseName(t) \in ExpectedTables
            /\ t.name = prefix \o <<BaseName(t)>>
            /\ {c.name : c \in NamedConstraints(t)}
                   = {prefix \o o : o \in OriginalIndexNames(BaseName(t))}
            /\ \A i \in DOMAIN t.constraints :
                   t.constraints[i].kind = "Index" => t.constraints[i].named
            /\ (prefix = <<"pp_">>) =>
                   /\ Head(t.name) = "pp_"
                   /\ \A c \in NamedConstraints(t) : Head(c.name) = "pp_"
            /\ (prefix = << >>) =>
                   /\ t.name = <<BaseName(t)>>
                   /\ \A c \in NamedConstraints(t) : c.name \in OriginalIndexNames(BaseName(t))

C6_Witness ==
    /\ pc = "ready" /\ prefix = <<"pp_">> /\ calls >= 1
    /\ \E t \in metadata : BaseName(t) = "PpdbProtoVisits" /\ Head(t.name) = "pp_"
                           /\ \A c \in NamedConstraints(t) : Head(c.name) = "pp_"

Contains(text, token) == \E i \in DOMAIN text : text[i] = token

\* the DDL rendered by the create_all of the most recent makeSchema
Rendered == UNION {log[i].ddl : i \in {j \in DOMAIN log : log[j].op = "create_all"}}

IndexesOf(t) ==
    {t.constraints[i] : i \in {j \in DOMAIN t.constraints : t.constraints[j].kind = "Index"}}

\* C7: for oracle the create-table text is the generic text, then
\* " ORGANIZATION INDEX" iff the table's info asks for it, then
\* " TABLESPACE <name>" iff a tablespace is set; the create-index text gets
\* only the tablespace clause; any other dialect renders the generic text,
\* which has neither clause.
C7_DdlSuffixes ==
    (pc = "ready" /\ Rendered # {}) =>
        /\ \A t \in metadata :
               LET iot == "oracle_iot" \in DOMAIN t.info /\ t.info["oracle_iot"]
                   ts == t.info["oracle_tablespace"]
                   expected ==
                       visit_create_table(engine_name, t)
                           \o (IF engine_name = "oracle" /\ iot
                               THEN <<" ORGANIZATION INDEX">> ELSE << >>)
                           \o (IF engine_name = "oracle" /\ ts # None
                               THEN <<" TABLESPACE ", ts>> ELSE << >>)
               IN  /\ [kind |-> "CreateTable", name |-> t.name, text |-> expected] \in Rendered
                   /\ \A ix \in IndexesOf(t) :
                          [kind |-> "CreateIndex", name |-> ix.name,
                           text |-> visit_create_index(engine_name, t, ix)
                                       \o (IF engine_name = "oracle" /\ options.oracle_tablespace # None
                                           THEN <<" TABLESPACE ", options.oracle_tablespace>>
                                           ELSE << >>)] \in Rendered
        /\ Cardinality(Rendered) =
               Cardinality(metadata) + Cardinality(UNION {IndexesOf(t) : t \in metadata})
        /\ (engine_name = "oracle" /\ dia_object_index = "last_object_table" /\ options.oracle_iot) =>
               \E d \in Rendered :
                   /\ d.kind = "CreateTable" /\ d.name = prefix \o <<"DiaObjectLast">>
                   /\ Contains(d.text, " ORGANIZATION INDEX")
        /\ (engine_name = "oracle" /\ options.oracle_tablespace = "TS1") =>
               \A d \in Rendered :
                   \E i \in DOMAIN d.text : i = Len(d.text) - 1
                       /\ d.text[i] = " TABLESPACE " /\ d.text[i + 1] = "TS1"
        /\ (engine_name # "oracle") =>
               \A d \in Rendered :
                   ~Contains(d.text, " ORGANIZATION INDEX") /\ ~Contains(d.text, " TABLESPACE ")

C7_Witness ==
    /\ pc = "ready" /\ engine_name = "oracle" /\ dia_object_index = "last_object_table"
    /\ options.oracle_iot /\ options.oracle_tablespace = "TS1"
    /\ \E d \in Rendered : d.kind = "CreateTable" /\ Contains(d.text, " ORGANIZATION INDEX")
                           /\ Contains(d.text, " TABLESPACE ")

\* the logical tables the configuration looks up
Referenced ==
    {"DiaObject", "DiaSource", "SSObject", "DiaForcedSource", "DiaObject_To_Object_Match"}
        \cup (IF dia_object_index = "pix_id_iov" THEN {"DiaObjectIndexHtmFirst"} ELSE {})
        \cup (IF dia_object_index = "last_object_table" THEN {"DiaObjectLast"} ELSE {})

SomeReferencedAbsent == \E n \in Referenced : n \notin DOMAIN tableSchemas

C9_TypeResolution ==
    /\ (pc # "new" /\ engine_name \notin {"mysql", "postgresql", "oracle", "sqlite"}) =>
           (pc = "failed" /\ result = "TypeError" /\ ~getDoubleType(engine_name).ok)
    /\ (pc = "ready") =>
           /\ engine_name \in {"mysql", "postgresql", "oracle", "sqlite"}
           /\ DOMAIN type_map = {"DOUBLE", "FLOAT", "DATETIME", "BIGINT", "INTEGER", "INT",
                                 "TINYINT", "BLOB", "CHAR", "BOOL"}
           /\ type_map["DOUBLE"] =
                  CASE engine_name = "mysql" -> <<"sqlalchemy.dialects.mysql", "DOUBLE(asdecimal=False)">>
                    [] engine_name = "postgresql" -> <<"sqlalchemy.dialects.postgresql", "DOUBLE_PRECISION">>
                    [] engine_name = "oracle" -> <<"sqlalchemy.dialects.oracle", "DOUBLE_PRECISION">>
                    [] engine_name = "sqlite" -> <<"sqlalchemy.dialects.sqlite", "REAL">>
           /\ \A d \in {"mysql", "postgresql", "oracle", "sqlite"} \ {engine_name} :
                  /\ getDoubleType(d).ok
                  /\ getDoubleType(d).type # type_map["DOUBLE"]
                  /\ \A t \in DOMAIN type_map \ {"DOUBLE"} :
                         makeTypeMap(getDoubleType(d).type)[t] = type_map[t]
           /\ \A t \in metadata : \A i \in DOMAIN t.columns :
                  t.columns[i].type \in Range([x \in DOMAIN type_map |-> type_map[x]])

C9_Witness ==
    /\ pc = "ready" /\ engine_name = "oracle"
    /\ type_map["DOUBLE"] = <<"sqlalchemy.dialects.oracle", "DOUBLE_PRECISION">>
    /\ \E t \in metadata : \E i \in DOMAIN t.columns : t.columns[i].type = type_map["DOUBLE"]

\* C10: every held table carries the mysql_engine and tablespace of the most
\* recent _makeTables pass (the defaults InnoDB / None / False after
\* __init__), every index the tablespace, and the oracle_iot flag of that
\* pass is carried by DiaObjectLast and by no other table.
C10_OptionsOfMostRecentCall ==
    pc = "ready" =>
        /\ (calls = 0) => options = Options(FALSE, "InnoDB", None, FALSE)
        /\ \A t \in metadata \cup AttrTables :
               /\ t.mysql_engine = options.mysql_engine
               /\ "oracle_tablespace" \in DOMAIN t.info
               /\ t.info["oracle_tablespace"] = options.oracle_tablespace
               /\ \A ix \in IndexesOf(t) :
                      /\ "oracle_tablespace" \in DOMAIN ix.info
                      /\ ix.info["oracle_tablespace"] = options.oracle_tablespace
               /\ IF BaseName(t) = "DiaObjectLast"
                  THEN "oracle_iot" \in DOMAIN t.info /\ t.info["oracle_iot"] = options.oracle_iot
                  ELSE "oracle_iot" \notin DOMAIN t.info

C10_Witness ==
    /\ pc = "ready" /\ calls = 2 /\ dia_object_index = "last_object_table"
    /\ options.mysql_engine = "MyISAM" /\ options.oracle_tablespace = "TS1" /\ options.oracle_iot
    /\ objects_last # << >> /\ objects_last[1].info["oracle_iot"]
    /\ objects_last[1].mysql_engine = "MyISAM"

====
